---- MODULE Spec2Model ----
(***************************************************************************)
(* A model of scripts/update_media.py, the updater of yang-media-kit's     *)
(* data.json: load, two stat fetchers, two discoverers, recalculate, save. *)
(*                                                                         *)
(* Text.  A Python str is modelled as a sequence of characters.  A         *)
(* printable ASCII character, a tab, a line feed and a carriage return are *)
(* the one-character string holding them; any other character is the       *)
(* string "Uxxxx" of its code point ("U694A" is 楊, "U000B" the vertical   *)
(* tab, "UD83D" a lone surrogate).  The empty str is <<>>.  Every str operation the script uses (in, *)
(* split, rsplit, strip, replace, slicing, concatenation) is defined on    *)
(* these sequences.                                                        *)
(***************************************************************************)
EXTENDS Integers, Sequences, FiniteSets, TLC

VARIABLES
  file,        \* content of DATA_FILE: NoFile, Corrupt, or a dataset
  data,        \* main()'s `data` (Unloaded before load_data returns)
  pc,          \* main()'s position
  changes,     \* main()'s `changes`
  news,        \* main()'s `news`: the items search_google_news returned
  yt,          \* main()'s `yt`: the items search_youtube_shows returned
  log,         \* what the stages have printed, a token per stage, in order
  exit_code,   \* the process's exit status (-1 while it runs)
  now,         \* the wall clock: a day of May 2024
  run,         \* how many times the scheduler has started the script
  fb_page,     \* what the Facebook page yields (the same in every run)
  google_page, \* what the Google search yields
  rss,         \* what Google News RSS yields, one response per search name
  ytdlp,       \* what yt-dlp yields: its availability, one response per show
  loaded,      \* history: the dataset load_data returned in this run
  first,       \* history: the file as the first run wrote it
  alt,         \* SpecOrder: the dataset of the swapped stage order
  cl_url,      \* SpecClassify: classify_outlet's url
  cl_source,   \* SpecClassify: classify_outlet's source_name
  cl_out       \* SpecClassify: classify_outlet's result (None before the call)

vars == <<file, data, pc, changes, news, yt, log, exit_code, now, run, fb_page,
          google_page, rss, ytdlp, loaded, first, alt, cl_url, cl_source, cl_out>>

(***************************************************************************)
(* str operations                                                          *)
(***************************************************************************)

\* F(v), with v evaluated once, before F is applied to it
Eager(F(_), v) == CHOOSE r \in {F(x) : x \in {v}} : TRUE

\* sub occurs in s at place i
OccursAt(s, sub, i) == SubSeq(s, i, i + Len(sub) - 1) = sub

\* sub in s
Contains(s, sub) ==
  Eager(LAMBDA x : \E i \in 1..(Len(x) - Len(sub) + 1) : OccursAt(x, sub, i), s)

\* s.find(sub) + 1: the first place sub occurs at, 0 when it does not
Find(s, sub) ==
  Eager(LAMBDA x :
          IF Contains(x, sub)
          THEN CHOOSE i \in 1..(Len(x) - Len(sub) + 1) :
                 /\ OccursAt(x, sub, i)
                 /\ \A j \in 1..(i - 1) : ~OccursAt(x, sub, j)
          ELSE 0, s)

\* s.rfind(sub) + 1: the last place sub occurs at, 0 when it does not
RFind(s, sub) ==
  Eager(LAMBDA x :
          IF Contains(x, sub)
          THEN CHOOSE i \in 1..(Len(x) - Len(sub) + 1) :
                 /\ OccursAt(x, sub, i)
                 /\ \A j \in (i + 1)..(Len(x) - Len(sub) + 1) : ~OccursAt(x, sub, j)
          ELSE 0, s)

\* s.split(sep), sep not empty: cut at each occurrence, left to right
RECURSIVE Split(_, _)
Split(s, sep) ==
  Eager(LAMBDA i :
          IF i = 0 THEN <<s>>
          ELSE <<SubSeq(s, 1, i - 1)>>
               \o Eager(LAMBDA rest : Split(rest, sep), SubSeq(s, i + Len(sep), Len(s))),
        Find(s, sep))

Last(q) == q[Len(q)]

RECURSIVE Join(_)
Join(parts) ==
  IF parts = <<>> THEN <<>>
  ELSE Head(parts) \o Eager(LAMBDA rest : Join(rest), Tail(parts))

\* s.replace(old, ""), old not empty
Remove(s, old) == Eager(LAMBDA parts : Join(parts), Split(s, old))

\* s.rsplit(sep, 1) where sep occurs in s: cut at the last occurrence
RSplit1(s, sep) ==
  Eager(LAMBDA i : <<SubSeq(s, 1, i - 1), SubSeq(s, i + Len(sep), Len(s))>>, RFind(s, sep))

\* the characters str.strip() removes: those str.isspace() holds of
Whitespace ==
  {"\t", "\n", "U000B", "U000C", "\r", "U001C", "U001D", "U001E", "U001F", " ",
   "U0085", "U00A0", "U1680", "U2000", "U2001", "U2002", "U2003", "U2004",
   "U2005", "U2006", "U2007", "U2008", "U2009", "U200A", "U2028", "U2029",
   "U202F", "U205F", "U3000"}

RECURSIVE LStrip(_)
LStrip(s) ==
  IF s # <<>> /\ Head(s) \in Whitespace
  THEN Eager(LAMBDA rest : LStrip(rest), Tail(s))
  ELSE s

RECURSIVE RStrip(_)
RStrip(s) ==
  IF s # <<>> /\ Last(s) \in Whitespace
  THEN Eager(LAMBDA rest : RStrip(rest), SubSeq(s, 1, Len(s) - 1))
  ELSE s

Strip(s) == Eager(LAMBDA rest : RStrip(rest), LStrip(s))

\* s[:n]
Prefix(s, n) == SubSeq(s, 1, IF n < Len(s) THEN n ELSE Len(s))

DigitChars == <<"0", "1", "2", "3", "4", "5", "6", "7", "8", "9">>

\* str(n) for n >= 0
RECURSIVE IntToStr(_)
IntToStr(n) ==
  IF n < 10 THEN <<DigitChars[n + 1]>>
  ELSE Eager(LAMBDA m : IntToStr(m), n \div 10) \o <<DigitChars[(n % 10) + 1]>>

\* n formatted to at least w digits, zero-padded ("%02d")
RECURSIVE ZeroPad(_, _)
ZeroPad(s, w) ==
  IF Len(s) >= w THEN s ELSE Eager(LAMBDA padded : ZeroPad(padded, w), <<"0">> \o s)

\* f"{n:,}" for n >= 0
RECURSIVE Grouped(_)
Grouped(n) ==
  IF n < 1000 THEN IntToStr(n)
  ELSE Eager(LAMBDA m : Grouped(m), n \div 1000) \o <<",">> \o ZeroPad(IntToStr(n % 1000), 3)

(***************************************************************************)
(* CONFIG.  A dict is a sequence of its items, in insertion order, which   *)
(* is the order the script iterates it in.                                 *)
(***************************************************************************)

\* ["楊智鈞", "俠醫楊智鈞"]
SEARCH_NAMES == <<<<"U694A","U667A","U921E">>, <<"U4FE0","U91AB","U694A","U667A","U921E">>>>

TV_SHOWS == <<
  [name |-> <<"U91AB","U5E2B","U597D","U8FA3">>,   network |-> <<"U6771","U68EE">>],
  [name |-> <<"U5168","U6C11","U661F","U653B","U7565">>, network |-> <<"U885B","U8996","U4E2D","U6587","U53F0">>],
  [name |-> <<"U5065","U5EB7","2",".","0">>,    network |-> <<"T","V","B","S">>],
  [name |-> <<"U805A","U7126","2",".","0">>,    network |-> <<"U5E74","U4EE3">>],
  [name |-> <<"U795D","U4F60","U5065","U5EB7">>,   network |-> <<>>] >>

NEWS_OUTLET_DOMAINS == <<
  [name |-> <<"U81EA","U7531","U6642","U5831">>,        domains |-> <<<<"l","t","n",".","c","o","m",".","t","w">>>>],
  [name |-> <<"U806F","U5408","U5831","UFF0F","U5143","U6C23","U7DB2">>,  domains |-> <<<<"u","d","n",".","c","o","m">>>>],
  [name |-> <<"E","T","t","o","d","a","y">>,         domains |-> <<<<"e","t","t","o","d","a","y",".","n","e","t">>>>],
  [name |-> <<"T","V","B","S"," ","U5065","U5EB7","2",".","0">>,    domains |-> <<<<"t","v","b","s",".","c","o","m",".","t","w">>>>],
  [name |-> <<"C","T","W","A","N","T","UFF0F","U5468","U520A","U738B">>,  domains |-> <<<<"c","t","w","a","n","t",".","c","o","m">>>>],
  [name |-> <<"Y","a","h","o","o"," ","U65B0","U805E">>,      domains |-> <<<<"t","w",".","n","e","w","s",".","y","a","h","o","o",".","c","o","m">>, <<"y","a","h","o","o",".","c","o","m">>>>],
  [name |-> <<"L","I","N","E"," ","T","O","D","A","Y">>,      domains |-> <<<<"t","o","d","a","y",".","l","i","n","e",".","m","e">>>>],
  [name |-> <<"U4E2D","U6642","U65B0","U805E","U7DB2">>,      domains |-> <<<<"c","h","i","n","a","t","i","m","e","s",".","c","o","m">>>>],
  [name |-> <<"U4E09","U7ACB","U65B0","U805E">>,        domains |-> <<<<"s","e","t","n",".","c","o","m">>>>],
  [name |-> <<"N","O","W","n","e","w","s">>,         domains |-> <<<<"n","o","w","n","e","w","s",".","c","o","m">>>>],
  [name |-> <<"U532F","U6D41","U65B0","U805E","U7DB2">>,      domains |-> <<<<"c","n","e","w","s",".","c","o","m",".","t","w">>>>] >>

HEALTH_MEDIA_DOMAINS == <<
  [name |-> <<"U65E9","U5B89","U5065","U5EB7">>, domains |-> <<<<"e","d","h",".","t","w">>>>,              role |-> <<"U5C08","U6B04","U4F5C","U8005">>],
  [name |-> <<"U5EB7","U5065","U96DC","U8A8C">>, domains |-> <<<<"c","o","m","m","o","n","h","e","a","l","t","h",".","c","o","m",".","t","w">>>>, role |-> <<>>],
  [name |-> <<"H","e","h","o","U5065","U5EB7">>, domains |-> <<<<"h","e","h","o",".","c","o","m",".","t","w">>>>,         role |-> <<>>] >>

\* the keys of a dict
Keys(table) == {table[i].name : i \in DOMAIN table}

(***************************************************************************)
(* Outlet classification                                                   *)
(***************************************************************************)

Letters ==
  {"a","b","c","d","e","f","g","h","i","j","k","l","m","n","o","p","q","r",
   "s","t","u","v","w","x","y","z","A","B","C","D","E","F","G","H","I","J",
   "K","L","M","N","O","P","Q","R","S","T","U","V","W","X","Y","Z"}

SchemeChars == Letters \cup {DigitChars[i] : i \in DOMAIN DigitChars} \cup {"+", "-", "."}

\* _WHATWG_C0_CONTROL_OR_SPACE: the characters U+0000 to U+0020
C0ControlOrSpace ==
  {"U0000", "U0001", "U0002", "U0003", "U0004", "U0005", "U0006", "U0007",
   "U0008", "\t", "\n", "U000B", "U000C", "\r", "U000E", "U000F", "U0010",
   "U0011", "U0012", "U0013", "U0014", "U0015", "U0016", "U0017", "U0018",
   "U0019", "U001A", "U001B", "U001C", "U001D", "U001E", "U001F", " "}

\* _UNSAFE_URL_BYTES_TO_REMOVE
UnsafeUrlChars == {"\t", "\r", "\n"}

\* url.lstrip(_WHATWG_C0_CONTROL_OR_SPACE)
RECURSIVE LStripC0(_)
LStripC0(url) ==
  IF url # <<>> /\ Head(url) \in C0ControlOrSpace
  THEN Eager(LAMBDA rest : LStripC0(rest), Tail(url))
  ELSE url

\* the url urlsplit parses: leading controls and spaces stripped, then every
\* tab, carriage return and line feed removed
CleanUrl(url) ==
  Eager(LAMBDA stripped : SelectSeq(stripped, LAMBDA c : c \notin UnsafeUrlChars),
        LStripC0(url))

\* what urlsplit leaves of the cleaned url after the scheme
SchemeCut(url) ==
  Eager(LAMBDA i :
          IF i > 1 /\ url[1] \in Letters /\ \A k \in 1..(i - 1) : url[k] \in SchemeChars
          THEN SubSeq(url, i + 1, Len(url))
          ELSE url,
        Find(url, <<":">>))

\* what urllib.parse.urlparse(url) leaves after the scheme
AfterScheme(url) == Eager(LAMBDA cleaned : SchemeCut(cleaned), CleanUrl(url))

\* the netloc of what follows the scheme: between "//" and the first of / ? #
NetlocOf(rest) ==
  LET ends == {i \in 3..Len(rest) : rest[i] \in {"/", "?", "#"}}
      stop == IF ends = {} THEN Len(rest) + 1
              ELSE CHOOSE i \in ends : \A j \in ends : i <= j
  IN  IF Prefix(rest, 2) = <<"/", "/">> THEN SubSeq(rest, 3, stop - 1) ELSE <<>>

\* urllib.parse.urlparse(url).netloc, when urlparse returns
UrlNetloc(url) == Eager(LAMBDA rest : NetlocOf(rest), AfterScheme(url))

HexDigits ==
  {DigitChars[i] : i \in DOMAIN DigitChars}
    \cup {"a", "b", "c", "d", "e", "f", "A", "B", "C", "D", "E", "F"}

\* int(octet_str, 10) of up to three decimal digits
RECURSIVE OctetValue(_)
OctetValue(s) ==
  IF s = <<>> THEN 0
  ELSE 10 * Eager(LAMBDA front : OctetValue(front), SubSeq(s, 1, Len(s) - 1))
       + ((CHOOSE d \in DOMAIN DigitChars : DigitChars[d] = Last(s)) - 1)

\* ipaddress: _parse_octet returns
ValidOctet(s) ==
  /\ s # <<>>
  /\ \A i \in DOMAIN s : \E d \in DOMAIN DigitChars : DigitChars[d] = s[i]
  /\ Len(s) <= 3
  /\ (s = <<"0">> \/ s[1] # "0")
  /\ OctetValue(s) <= 255

\* ipaddress: IPv4Address(s) is constructed
ValidIPv4(s) ==
  /\ s # <<>>
  /\ Eager(LAMBDA octets : Len(octets) = 4 /\ \A i \in DOMAIN octets : ValidOctet(octets[i]),
           Split(s, <<".">>))

\* ipaddress: _parse_hextet returns
ValidHextet(s) ==
  s # <<>> /\ Len(s) <= 4 /\ \A i \in DOMAIN s : s[i] \in HexDigits

\* ipaddress: _ip_int_from_string of IPv6 returns, on the parts between the
\* colons, an IPv4-style last part already replaced by two hextets
ValidHextets(parts) ==
  LET n     == Len(parts)
      skips == {i \in 2..(n - 1) : parts[i] = <<>>}
      k     == CHOOSE i \in skips : TRUE
      hi    == IF parts[1] = <<>> THEN k - 2 ELSE k - 1
      lo    == IF parts[n] = <<>> THEN n - k - 1 ELSE n - k
  IN  /\ n <= 9
      /\ Cardinality(skips) <= 1
      /\ IF skips # {}
         THEN /\ parts[1] = <<>> => hi = 0
              /\ parts[n] = <<>> => lo = 0
              /\ 8 - (hi + lo) >= 1
              /\ \A i \in 1..hi : ValidHextet(parts[i])
              /\ \A i \in (n - lo + 1)..n : ValidHextet(parts[i])
         ELSE /\ n = 8
              /\ \A i \in 1..n : ValidHextet(parts[i])

\* ipaddress: IPv6Address._ip_int_from_string(s) returns
ValidIPv6Text(s) ==
  /\ s # <<>>
  /\ Eager(LAMBDA parts :
             /\ Len(parts) >= 3
             /\ IF Contains(Last(parts), <<".">>)
                THEN /\ ValidIPv4(Last(parts))
                     /\ ValidHextets(SubSeq(parts, 1, Len(parts) - 1) \o <<<<"0">>, <<"0">>>>)
                ELSE ValidHextets(parts),
           Split(s, <<":">>))

\* ipaddress: IPv6Address(s) is constructed (a scope id may follow a %)
ValidIPv6(s) ==
  Eager(LAMBDA i :
          IF i = 0 THEN ValidIPv6Text(s)
          ELSE /\ i < Len(s)
               /\ ~Contains(SubSeq(s, i + 1, Len(s)), <<"%">>)
               /\ ValidIPv6Text(SubSeq(s, 1, i - 1)),
        Find(s, <<"%">>))

\* re.match(r"\Av[a-fA-F0-9]+\..+\Z", hostname), for a hostname without "\n"
ValidIPvFuture(hostname) ==
  /\ hostname # <<>> /\ hostname[1] = "v"
  /\ \E dot \in 3..(Len(hostname) - 1) :
        /\ hostname[dot] = "."
        /\ \A i \in 2..(dot - 1) : hostname[i] \in HexDigits

\* netloc.partition('[')[2].partition(']')[0]
BracketedHost(netloc) ==
  Eager(LAMBDA after : Head(Split(after, <<"]">>)),
        SubSeq(netloc, Find(netloc, <<"[">>) + 1, Len(netloc)))

\* _check_bracketed_host raises: the host is neither an IPvFuture address nor
\* an IPv6 address (an IPv4 address in brackets is refused too)
BracketedHostRaises(hostname) ==
  IF hostname # <<>> /\ hostname[1] = "v" THEN ~ValidIPvFuture(hostname)
  ELSE ~ValidIPv6(hostname)

\* the characters outside ASCII whose NFKC form holds one of / ? # @ :
\* (Unicode 14.0.0)
NfkcUnsafe ==
  {"U2047", "U2048", "U2049", "U2100", "U2101", "U2105", "U2106", "U2A74",
   "UFE13", "UFE16", "UFE55", "UFE56", "UFE5F", "UFE6B", "UFF03", "UFF0F",
   "UFF1A", "UFF1F", "UFF20"}

\* _checknetloc raises
NetlocCheckRaises(netloc) == \E i \in DOMAIN netloc : netloc[i] \in NfkcUnsafe

\* urlparse raises ValueError: a bracket without its pair, a bracketed host
\* that is no address, or a netloc that NFKC turns into one with a delimiter
UrlParseRaises(url) ==
  Eager(LAMBDA n :
          \/ Contains(n, <<"[">>) # Contains(n, <<"]">>)
          \/ Contains(n, <<"[">>) /\ Contains(n, <<"]">>) /\ BracketedHostRaises(BracketedHost(n))
          \/ NetlocCheckRaises(n),
        UrlNetloc(url))

\* {**NEWS_OUTLET_DOMAINS, **{k: v["domains"] ...}}.items(), in order
AllOutletDomains ==
  NEWS_OUTLET_DOMAINS \o
  [i \in DOMAIN HEALTH_MEDIA_DOMAINS |->
     [name |-> HEALTH_MEDIA_DOMAINS[i].name,
      domains |-> HEALTH_MEDIA_DOMAINS[i].domains]]

\* list(NEWS_OUTLET_DOMAINS.keys()) + list(HEALTH_MEDIA_DOMAINS.keys())
AllOutletNames ==
  [i \in DOMAIN AllOutletDomains |-> AllOutletDomains[i].name]

\* the rows of the merged table one of whose domains is in url
DomainHits(url) ==
  {i \in DOMAIN AllOutletDomains :
     \E k \in DOMAIN AllOutletDomains[i].domains :
        Contains(url, AllOutletDomains[i].domains[k])}

\* the names outlet_name.replace("／", "").replace("　", "") of which is in
\* source_name.replace(" ", "")
NameHits(source_name) ==
  Eager(LAMBDA compact :
          {i \in DOMAIN AllOutletNames :
             Contains(compact, Remove(Remove(AllOutletNames[i], <<"UFF0F">>), <<"U3000">>))},
        Remove(source_name, <<" ">>))

MinOf(set) == CHOOSE i \in set : \A j \in set : i <= j

\* a faulty variant of classify_outlet: the source name is tried before the domains
classify_outlet_name_first(url, source_name) ==
  IF source_name # <<>> /\ NameHits(source_name) # {}
  THEN AllOutletNames[MinOf(NameHits(source_name))]
  ELSE IF DomainHits(url) # {}
  THEN AllOutletDomains[MinOf(DomainHits(url))].name
  ELSE IF source_name # <<>> THEN source_name
  ELSE IF UrlParseRaises(url) THEN <<"U5176","U4ED6","U5A92","U9AD4">>
  ELSE Remove(UrlNetloc(url), <<"w","w","w",".">>)

classify_outlet(url, source_name) ==
  IF DomainHits(url) # {}
  THEN AllOutletDomains[MinOf(DomainHits(url))].name
  ELSE IF source_name # <<>> /\ NameHits(source_name) # {}
  THEN AllOutletNames[MinOf(NameHits(source_name))]
  ELSE IF source_name # <<>> THEN source_name
  ELSE IF UrlParseRaises(url) THEN <<"U5176","U4ED6","U5A92","U9AD4">>
  ELSE Remove(UrlNetloc(url), <<"w","w","w",".">>)

\* a faulty variant of determine_category: every outlet is a news outlet
determine_category_all_news(outlet) == "news_media"

determine_category(outlet) ==
  IF outlet \in Keys(HEALTH_MEDIA_DOMAINS) THEN "health_media" ELSE "news_media"

(***************************************************************************)
(* UTILITIES.  A dict with fixed keys is a record; a dict whose keys vary  *)
(* (the dataset, stats, a stat's entry, an item) is a function on its      *)
(* keys.  A float with one decimal (a rating) is kept in tenths.  A value  *)
(* read from JSON where the script expects a str (an item's url, a         *)
(* video's id, title and upload_date) is a text or None (JSON null).       *)
(***************************************************************************)

None == <<"None">>

EmptyDict == [k \in {} |-> 0]

HasKey(d, k) == k \in DOMAIN d

\* d[k] = v
SetKey(d, k, v) == (k :> v) @@ d

\* d.get(k, default)
Get(d, k, default) == IF HasKey(d, k) THEN d[k] ELSE default

\* bool(v) of a text or None
Truthy(v) == v # None /\ v # <<>>

\* f"{v}" of a text or None
Format(v) == IF v = None THEN <<"N","o","n","e">> ELSE v

\* the wall clock is a day of May 2024, UTC+8
today_str(t) == <<"2","0","2","4","-","0","5","-">> \o ZeroPad(IntToStr(t), 2)

\* datetime.now(TW_TZ).isoformat()
IsoFormat(t) == today_str(t) \o <<"T","0","0",":","0","0",":","0","0","+","0","8",":","0","0">>

NoFile == [absent |-> TRUE]

Corrupt == [corrupt |-> TRUE]

FileExists(f) == ~HasKey(f, "absent")

FileParses(f) == FileExists(f) /\ ~HasKey(f, "corrupt")

load_data(f) ==
  IF FileExists(f) THEN f
  ELSE [last_updated |-> None, stats |-> EmptyDict,
        tv_shows |-> <<>>, health_media |-> <<>>, news_media |-> <<>>]

HexUpper ==
  {"0", "1", "2", "3", "4", "5", "6", "7", "8", "9", "A", "B", "C", "D", "E", "F"}

\* the code points U+D800..U+DFFF
Surrogates ==
  {"UD" \o a \o b \o c :
     a \in {"8", "9", "A", "B", "C", "D", "E", "F"}, b \in HexUpper, c \in HexUpper}

\* s.encode("utf-8") raises UnicodeEncodeError: s holds a lone surrogate
EncodeRaises(s) == \E i \in DOMAIN s : s[i] \in Surrogates

UnicodeEncodeError == [raises |-> "UnicodeEncodeError"]

\* the dataset save_data dumps (line 83 sets the timestamp first)
save_data(d, t) == SetKey(d, "last_updated", IsoFormat(t))

\* hashlib.md5(raw.encode()).hexdigest()[:8] is kept as the text it digests;
\* raw.encode() raises on a lone surrogate
make_id(category, outlet, title) ==
  Eager(LAMBDA raw :
          IF EncodeRaises(raw) THEN UnicodeEncodeError
          ELSE [prefix |-> category, md5_of |-> raw],
        category \o <<"|">> \o outlet \o <<"|">> \o title)

Sections == {"tv_shows", "health_media", "news_media"}

\* data.get(section, [])
Section(d, sec) == Get(d, sec, <<>>)

\* the str values json.dump writes for an item (an id is ASCII)
ItemTexts(item) == {item[k] : k \in DOMAIN item \ {"id"}} \ {None}

\* json.dump(..., ensure_ascii=False) into the UTF-8 file raises
\* UnicodeEncodeError at the first str that holds a lone surrogate, after
\* open(DATA_FILE, "w") has emptied the file
DumpRaises(d) ==
  \/ \E sec \in Sections \cap DOMAIN d : \E i \in DOMAIN d[sec] :
        \E text \in ItemTexts(d[sec][i]) : EncodeRaises(text)
  \/ /\ HasKey(d, "stats")
     /\ \E k \in DOMAIN d.stats :
           HasKey(d.stats[k], "display") /\ EncodeRaises(d.stats[k].display)

\* the video id get_existing_urls reads from a YouTube URL, if it is one
VideoIds(url) ==
  IF Contains(url, <<"y","o","u","t","u",".","b","e","/">>)
  THEN {Head(Eager(LAMBDA tail : Split(tail, <<"?">>), Last(Split(url, <<"y","o","u","t","u",".","b","e","/">>))))}
  ELSE IF Contains(url, <<"y","o","u","t","u","b","e",".","c","o","m","/","w","a","t","c","h">>)
  THEN {Head(Eager(LAMBDA tail : Split(tail, <<"&">>), Last(Split(url, <<"v","=">>))))}
  ELSE {}

\* what one item adds to the index: nothing when item.get("url") is falsy
UrlsOfItem(item) ==
  IF Truthy(Get(item, "url", None))
  THEN VideoIds(item.url) \cup {item.url}
  ELSE {}

get_existing_urls(d) ==
  UNION {UNION {UrlsOfItem(Section(d, sec)[i]) : i \in DOMAIN Section(d, sec)} :
           sec \in Sections}

\* the tenths digit f"{wan:.1f}" prints for wan = count / 10000, as an offset
\* from count's own tenth: 0 rounds down, 1 rounds up.  Off a tie the nearer
\* tenth wins.  On a tie (count % 1000 = 500) the double nearest count/10000
\* decides: it is the tie itself when 5 divides count/500 (then the even
\* tenth wins), else it lies below or above the tie by the sign of the
\* 53-bit rounding, which the residue of (count/500) * 2^e modulo 20 gives.
Pow2Mod20(e) == IF e = 0 THEN 1 ELSE IF e = 1 THEN 2 ELSE <<4, 8, 16, 12>>[((e - 2) % 4) + 1]

RECURSIVE Log2Floor(_, _)
Log2Floor(num, den) ==
  IF num < 2 * den THEN 0 ELSE 1 + Eager(LAMBDA twice : Log2Floor(num, twice), 2 * den)

TenthsRoundUp(count) ==
  LET r     == count % 1000
      n     == count \div 500
      e     == 52 - Log2Floor(n, 20)
      resid == ((n % 20) * Pow2Mod20(e)) % 20
      tenth == (count \div 1000) % 10
  IN  IF r # 500 THEN r > 500
      ELSE IF n % 5 = 0 THEN tenth % 2 = 1
      ELSE resid > 10

format_follower_count(count) ==
  IF count >= 10000
  THEN IF count % 10000 = 0
       THEN IntToStr(count \div 10000) \o <<"U842C","+">>
       ELSE LET tenths == (count \div 1000) + (IF TenthsRoundUp(count) THEN 1 ELSE 0)
            IN  IntToStr(tenths \div 10) \o <<".">> \o IntToStr(tenths % 10) \o <<"U842C","+">>
  ELSE Grouped(count) \o <<"+">>

(***************************************************************************)
(* FACEBOOK FOLLOWERS and GOOGLE RATING.  The page fetch and the regular   *)
(* expressions are the outside world: a response is an exception, or, per  *)
(* pattern in the script's order, no match or the number lines 159-163     *)
(* and 208 convert the match to (or the ValueError the conversion raises). *)
(* Each stage yields the dataset and the bool it returns.                  *)
(***************************************************************************)

FB_SANITY_MIN == 1000

RATING_MIN == 10

RATING_MAX == 50

RECURSIVE fb_scan(_, _, _)
fb_scan(d, matches, i) ==
  IF i > Len(matches) THEN [data |-> d, ok |-> FALSE]
  ELSE IF matches[i].kind = "none" THEN fb_scan(d, matches, i + 1)
  ELSE IF matches[i].kind = "value_error" THEN [data |-> d, ok |-> FALSE]
  ELSE IF matches[i].count > FB_SANITY_MIN
  THEN IF ~HasKey(d, "stats") \/ ~HasKey(d.stats, "facebook_followers")
       THEN [data |-> d, ok |-> FALSE]      \* KeyError, caught at line 178
       ELSE LET entry == SetKey(SetKey(d.stats["facebook_followers"],
                                       "count", matches[i].count),
                                "display", format_follower_count(matches[i].count))
            IN  [data |-> [d EXCEPT !.stats = SetKey(d.stats, "facebook_followers", entry)],
                 ok |-> TRUE]
  ELSE fb_scan(d, matches, i + 1)

update_facebook_followers(d, resp) ==
  IF resp.kind # "content" THEN [data |-> d, ok |-> FALSE]
  ELSE fb_scan(d, resp.matches, 1)

RECURSIVE rating_scan(_, _, _)
rating_scan(d, matches, i) ==
  IF i > Len(matches) THEN [data |-> d, ok |-> FALSE]
  ELSE IF matches[i].kind = "none" THEN rating_scan(d, matches, i + 1)
  ELSE IF RATING_MIN <= matches[i].tenths /\ matches[i].tenths <= RATING_MAX
  THEN IF ~HasKey(d, "stats") \/ ~HasKey(d.stats, "google_rating")
       THEN [data |-> d, ok |-> FALSE]      \* KeyError, caught at line 218
       ELSE LET entry == SetKey(d.stats["google_rating"], "score", matches[i].tenths)
            IN  [data |-> [d EXCEPT !.stats = SetKey(d.stats, "google_rating", entry)],
                 ok |-> TRUE]
  ELSE rating_scan(d, matches, i + 1)

update_google_rating(d, resp) ==
  IF resp.kind # "text" THEN [data |-> d, ok |-> FALSE]
  ELSE rating_scan(d, resp.matches, 1)

(***************************************************************************)
(* GOOGLE NEWS RSS.  A feed response either raises or lists entries; an    *)
(* entry is [title, link, head, published]: head is what the HEAD request  *)
(* for link yields ([ok, url]: the final URL, or an exception), published  *)
(* is <<>> or published_parsed[:6]: <<year, month, day, hour, minute,      *)
(* second>>.                                                               *)
(***************************************************************************)

FEED_CAP == 15

ArticleExts == {<<".","h","t","m","l">>, <<".","h","t","m">>, <<"/","a","r","t","i","c","l","e","/">>, <<"/","n","e","w","s","/">>}

\* [none, url]: none is the None of line 316
resolve_google_news_url(head) ==
  IF ~head.ok THEN [none |-> TRUE, url |-> <<>>]
  ELSE Eager(LAMBDA base :
               IF Contains(head.url, <<"?">>) /\ \E ext \in ArticleExts : Contains(base, ext)
               THEN [none |-> FALSE, url |-> base]
               ELSE [none |-> FALSE, url |-> head.url],
             Head(Split(head.url, <<"?">>)))

DaysInMonth(y, m) ==
  IF m = 2 THEN (IF (y % 4 = 0 /\ y % 100 # 0) \/ y % 400 = 0 THEN 29 ELSE 28)
  ELSE IF m \in {4, 6, 9, 11} THEN 30 ELSE 31

\* datetime(*p) raises ValueError otherwise
ValidDate(p) ==
  /\ p[1] \in 1..9999
  /\ p[2] \in 1..12
  /\ p[3] \in 1..DaysInMonth(p[1], p[2])
  /\ p[4] \in 0..23
  /\ p[5] \in 0..59
  /\ p[6] \in 0..59

\* dt.strftime("%Y-%m-%d") on Linux
StrfDate(p) ==
  IntToStr(p[1]) \o <<"-">> \o ZeroPad(IntToStr(p[2]), 2) \o <<"-">> \o ZeroPad(IntToStr(p[3]), 2)

\* category[:2]
CategoryTag(category) == IF category = "health_media" THEN <<"h","e">> ELSE <<"n","e">>

\* the role of lines 272-277
RoleOf(outlet) ==
  LET hits == {i \in DOMAIN HEALTH_MEDIA_DOMAINS : HEALTH_MEDIA_DOMAINS[i].name = outlet}
  IN  IF hits = {} THEN <<>> ELSE HEALTH_MEDIA_DOMAINS[MinOf(hits)].role

\* data[section].append(item), for a section the dataset has
AppendItem(d, section, item) == [d EXCEPT ![section] = Append(@, item)]

\* lines 243-245
ActualUrl(entry) ==
  Eager(LAMBDA resolved :
          IF resolved.none \/ resolved.url = <<>> THEN entry.link ELSE resolved.url,
        resolve_google_news_url(entry.head))

\* lines 262-266: <<title, source_name>>
SplitTitle(title) ==
  IF Contains(title, <<" ","-"," ">>)
  THEN Eager(LAMBDA parts : <<Strip(parts[1]), Strip(parts[2])>>, RSplit1(title, <<" ","-"," ">>))
  ELSE <<title, <<>>>>

\* lines 270-289: the item, or the exception make_id raises
ArticleItem(actual_url, title, outlet, published, t) ==
  LET category == determine_category(outlet)
      role     == IF category = "health_media" THEN RoleOf(outlet) ELSE <<>>
      base     == [id |-> make_id(CategoryTag(category), outlet, title),
                   outlet |-> outlet,
                   title |-> title,
                   date |-> IF published # <<>> THEN StrfDate(published) ELSE <<>>,
                   url |-> actual_url,
                   source |-> <<"a","u","t","o","_","s","e","a","r","c","h">>,
                   added_date |-> today_str(t)]
  IN  IF base.id = UnicodeEncodeError THEN UnicodeEncodeError
      ELSE IF role # <<>> THEN SetKey(base, "outlet_role", role) ELSE base

\* lines 262-289
NewArticle(entry, actual_url, t) ==
  Eager(LAMBDA ts :
          Eager(LAMBDA outlet : ArticleItem(actual_url, ts[1], outlet, entry.published, t),
                classify_outlet(actual_url, ts[2])),
        SplitTitle(entry.title))

\* lines 291-293; data[category] raises KeyError when the dataset has no
\* such section
AddArticle(acc, new_item, actual_url) ==
  IF ~HasKey(acc.data, determine_category(new_item.outlet))
  THEN [acc EXCEPT !.raised = TRUE]
  ELSE [data      |-> AppendItem(acc.data, determine_category(new_item.outlet), new_item),
        existing  |-> acc.existing \cup {actual_url},
        new_items |-> Append(acc.new_items, new_item),
        raised    |-> FALSE]

\* lines 247-259, with the URL resolved
NewsEntryAt(acc, entry, actual_url, t) ==
  IF actual_url \in acc.existing \/ entry.link \in acc.existing THEN acc
  ELSE IF ~\E i \in DOMAIN SEARCH_NAMES : Contains(entry.title, SEARCH_NAMES[i]) THEN acc
  ELSE IF entry.published # <<>> /\ ~ValidDate(entry.published)
  THEN [acc EXCEPT !.raised = TRUE]
  ELSE Eager(LAMBDA new_item :
               IF new_item = UnicodeEncodeError THEN [acc EXCEPT !.raised = TRUE]
               ELSE AddArticle(acc, new_item, actual_url),
             NewArticle(entry, actual_url, t))

\* One pass of the loop body, lines 239-294.  acc is [data, existing,
\* new_items, raised]: raised is an exception leaving the body.
NewsEntry(acc, entry, t) ==
  Eager(LAMBDA actual_url : NewsEntryAt(acc, entry, actual_url, t), ActualUrl(entry))

\* the loop at line 238, up to the exception that ends it
RECURSIVE NewsEntries(_, _, _, _)
NewsEntries(acc, entries, i, t) ==
  IF i > Len(entries) \/ i > FEED_CAP \/ acc.raised THEN acc
  ELSE Eager(LAMBDA after : NewsEntries(after, entries, i + 1, t),
             NewsEntry(acc, entries[i], t))

\* the loop at line 231; the except at 296 ends one name's pass only
RECURSIVE NewsNames(_, _, _, _)
NewsNames(acc, responses, n, t) ==
  IF n > Len(SEARCH_NAMES) THEN acc
  ELSE IF responses[n].raises THEN NewsNames(acc, responses, n + 1, t)
  ELSE Eager(LAMBDA after : NewsNames(after, responses, n + 1, t),
             [NewsEntries(acc, responses[n].entries, 1, t) EXCEPT !.raised = FALSE])

\* [data, new_items]
search_google_news(d, responses, t) ==
  Eager(LAMBDA acc : [data |-> acc.data, new_items |-> acc.new_items],
        Eager(LAMBDA start : NewsNames(start, responses, 1, t),
              [data |-> d, existing |-> get_existing_urls(d),
               new_items |-> <<>>, raised |-> FALSE]))

(***************************************************************************)
(* YOUTUBE SEARCH.  yt-dlp is present, or absent and installed by pip, or  *)
(* unavailable, or its probe fails with an OSError that is no              *)
(* FileNotFoundError (a PermissionError).  A query's response is a timeout, another exception, or    *)
(* the lines of its stdout; a line is empty, not JSON, JSON that is no     *)
(* object (a number, a string, a list, null, a bool), or a JSON object (a  *)
(* function on the keys it has among id, title, upload_date).              *)
(***************************************************************************)

\* f"https://youtu.be/{video_id}"
ShortUrl(video_id) == <<"h","t","t","p","s",":","/","/","y","o","u","t","u",".","b","e","/">> \o Format(video_id)

\* lines 408-423
TvRecord(id, show, video_id, title, upload_date, t) ==
  [id |-> id,
   show |-> show.name,
   show_network |-> show.network,
   title |-> title,
   date |-> IF Truthy(upload_date) /\ Len(upload_date) = 8
            THEN SubSeq(upload_date, 1, 4) \o <<"-">> \o SubSeq(upload_date, 5, 6)
                 \o <<"-">> \o SubSeq(upload_date, 7, 8)
            ELSE <<>>,
   url |-> ShortUrl(video_id),
   source |-> <<"a","u","t","o","_","s","e","a","r","c","h">>,
   added_date |-> today_str(t)]

\* lines 408-423: the item, or the exception make_id raises
TvItem(show, video_id, title, upload_date, t) ==
  Eager(LAMBDA id :
          IF id = UnicodeEncodeError THEN UnicodeEncodeError
          ELSE TvRecord(id, show, video_id, title, upload_date, t),
        make_id(<<"t","v">>, show.name, title))

\* lines 395-429, for a line that parsed to an object: `n in title` raises
\* TypeError on a title that is None, make_id raises UnicodeEncodeError,
\* data["tv_shows"] raises KeyError when the dataset has no such section
YtVideo(acc, show, video, t) ==
  LET video_id == Get(video, "id", <<>>)
      title    == Get(video, "title", <<>>)
  IN  IF video_id \in acc.existing \/ ShortUrl(video_id) \in acc.existing THEN acc
      ELSE IF title = None THEN [acc EXCEPT !.raised = TRUE]
      ELSE IF ~(\/ \E i \in DOMAIN SEARCH_NAMES : Contains(title, SEARCH_NAMES[i])
                \/ Contains(title, show.name))
      THEN acc
      ELSE Eager(LAMBDA new_item :
                   IF new_item = UnicodeEncodeError \/ ~HasKey(acc.data, "tv_shows")
                   THEN [acc EXCEPT !.raised = TRUE]
                   ELSE
                   [data      |-> AppendItem(acc.data, "tv_shows", new_item),
                    existing  |-> acc.existing \cup {video_id, new_item.url},
                    new_items |-> Append(acc.new_items, new_item),
                    raised    |-> FALSE],
                 TvItem(show, video_id, title, Get(video, "upload_date", <<>>), t))

\* One pass of the loop body, lines 388-429.  acc is [data, existing,
\* new_items, raised]: raised is an exception leaving the body.  An empty
\* line and one json.loads rejects are skipped; on JSON that is no object
\* video.get raises AttributeError.
YtLine(acc, show, line, t) ==
  IF line.kind \in {"empty", "badjson"} THEN acc
  ELSE IF line.kind = "nonobject" THEN [acc EXCEPT !.raised = TRUE]
  ELSE YtVideo(acc, show, line.video, t)

\* the loop at line 387, up to the exception that ends it
RECURSIVE YtLines(_, _, _, _, _)
YtLines(acc, show, lines, i, t) ==
  IF i > Len(lines) \/ acc.raised THEN acc
  ELSE Eager(LAMBDA after : YtLines(after, show, lines, i + 1, t),
             YtLine(acc, show, lines[i], t))

\* the loop at line 370 (SEARCH_NAMES[:1] is one name: one query per show);
\* the excepts at 431-434 end one show's pass only
RECURSIVE YtShows(_, _, _, _)
YtShows(acc, runs, n, t) ==
  IF n > Len(TV_SHOWS) THEN acc
  ELSE IF runs[n].kind # "ok" THEN YtShows(acc, runs, n + 1, t)
  ELSE Eager(LAMBDA after : YtShows(after, runs, n + 1, t),
             [YtLines(acc, TV_SHOWS[n], runs[n].lines, 1, t) EXCEPT !.raised = FALSE])

\* [data, new_items, raised]: raised is the exception of the probe at line
\* 360 that line 361 does not catch
search_youtube_shows(d, tool, t) ==
  IF tool.avail = "probe_error" THEN [data |-> d, new_items |-> <<>>, raised |-> TRUE]
  ELSE IF tool.avail = "unavailable" THEN [data |-> d, new_items |-> <<>>, raised |-> FALSE]
  ELSE Eager(LAMBDA acc : [data |-> acc.data, new_items |-> acc.new_items, raised |-> FALSE],
             Eager(LAMBDA start : YtShows(start, tool.runs, 1, t),
                   [data |-> d, existing |-> get_existing_urls(d),
                    new_items |-> <<>>, raised |-> FALSE]))

(***************************************************************************)
(* RECALCULATE STATS                                                       *)
(***************************************************************************)

\* f"{n}+"
PlusDisplay(n) == IntToStr(n) \o <<"+">>

\* a faulty variant of MediaCount: health_media is left out
MediaCount_no_health(d) == Len(Section(d, "tv_shows")) + Len(Section(d, "news_media"))

\* tv_count + news_count
MediaCount(d) ==
  Len(Section(d, "tv_shows"))
    + (Len(Section(d, "news_media")) + Len(Section(d, "health_media")))

\* [data, raised]: raised is the KeyError of stats, or of a stats entry, that
\* is missing
recalculate_stats(d) ==
  LET tv_count == Len(Section(d, "tv_shows"))
      tv       == SetKey(SetKey(d.stats["tv_episodes"], "count", tv_count),
                         "display", PlusDisplay(tv_count))
      d1       == [d EXCEPT !.stats = SetKey(d.stats, "tv_episodes", tv)]
      media    == SetKey(SetKey(d.stats["media_exposure"], "count", MediaCount(d)),
                         "display", PlusDisplay(MediaCount(d)))
      d2       == [d1 EXCEPT !.stats = SetKey(d1.stats, "media_exposure", media)]
  IN  IF ~HasKey(d, "stats") \/ ~HasKey(d.stats, "tv_episodes")
      THEN [data |-> d, raised |-> TRUE]
      ELSE IF ~HasKey(d.stats, "media_exposure") THEN [data |-> d1, raised |-> TRUE]
      ELSE [data |-> d2, raised |-> FALSE]

(***************************************************************************)
(* The inputs: datasets a file can hold and responses the outside world    *)
(* can give, each drawn from a small pool up to the bounds below.          *)
(***************************************************************************)

MaxRuns == 2      \* scheduler starts of the script per behaviour

MaxEntries == 1   \* entries of one feed response

MaxResults == 1   \* result lines of one yt-dlp query

StatKeys == {"facebook_followers", "google_rating", "tv_episodes", "media_exposure"}

\* stats entries as a file written by hand or by an earlier run holds them;
\* the two derived counts are stale
StoredStats ==
  [facebook_followers |-> [count |-> 48000, display |-> <<"4",".","8","U842C","+">>],
   google_rating      |-> [score |-> 48],
   tv_episodes        |-> [count |-> 7, display |-> <<"7","+">>],
   media_exposure     |-> [count |-> 9, display |-> <<"9","+">>]]

StatsWithout(keys) == [k \in StatKeys \ keys |-> StoredStats[k]]

StoredTvShort ==
  [id |-> make_id(<<"t","v">>, <<"U91AB","U5E2B","U597D","U8FA3">>, <<"U91AB","U5E2B","U597D","U8FA3"," ","U694A","U667A","U921E","U8AC7","U975C","U8108","U66F2","U5F35">>),
   show |-> <<"U91AB","U5E2B","U597D","U8FA3">>, show_network |-> <<"U6771","U68EE">>,
   title |-> <<"U91AB","U5E2B","U597D","U8FA3"," ","U694A","U667A","U921E","U8AC7","U975C","U8108","U66F2","U5F35">>, date |-> <<"2","0","2","4","-","0","4","-","0","1">>,
   url |-> <<"h","t","t","p","s",":","/","/","y","o","u","t","u",".","b","e","/","V","i","d","1","?","t","=","3","0">>, source |-> <<"m","a","n","u","a","l">>,
   added_date |-> <<"2","0","2","4","-","0","4","-","0","2">>]

StoredTvWatch ==
  [id |-> make_id(<<"t","v">>, <<"U5065","U5EB7","2",".","0">>, <<"U5065","U5EB7","2",".","0"," ","U8840","U7BA1","U4FDD","U990A">>),
   show |-> <<"U5065","U5EB7","2",".","0">>, show_network |-> <<"T","V","B","S">>,
   title |-> <<"U5065","U5EB7","2",".","0"," ","U8840","U7BA1","U4FDD","U990A">>, date |-> <<"2","0","2","4","-","0","3","-","0","1">>,
   url |-> <<"h","t","t","p","s",":","/","/","w","w","w",".","y","o","u","t","u","b","e",".","c","o","m","/","w","a","t","c","h","?","v","=","V","i","d","2","&","t","=","3","0","s">>, source |-> <<"m","a","n","u","a","l">>,
   added_date |-> <<"2","0","2","4","-","0","3","-","0","2">>]

StoredNews ==
  [id |-> make_id(<<"n","e">>, <<"U806F","U5408","U5831","UFF0F","U5143","U6C23","U7DB2">>, <<"U694A","U667A","U921E","UFF1A","U4E45","U7AD9","U65CF","U6CE8","U610F">>),
   outlet |-> <<"U806F","U5408","U5831","UFF0F","U5143","U6C23","U7DB2">>, title |-> <<"U694A","U667A","U921E","UFF1A","U4E45","U7AD9","U65CF","U6CE8","U610F">>,
   date |-> <<"2","0","2","4","-","0","2","-","0","1">>, url |-> <<"h","t","t","p","s",":","/","/","h","e","a","l","t","h",".","u","d","n",".","c","o","m","/","s","t","o","r","y","/","1">>,
   source |-> <<"m","a","n","u","a","l">>, added_date |-> <<"2","0","2","4","-","0","2","-","0","2">>]

StoredHealth ==
  [id |-> make_id(<<"h","e">>, <<"U65E9","U5B89","U5065","U5EB7">>, <<"U4FE0","U91AB","U694A","U667A","U921E","U5C08","U6B04">>),
   outlet |-> <<"U65E9","U5B89","U5065","U5EB7">>, outlet_role |-> <<"U5C08","U6B04","U4F5C","U8005">>, title |-> <<"U4FE0","U91AB","U694A","U667A","U921E","U5C08","U6B04">>,
   date |-> <<"2","0","2","4","-","0","1","-","0","1">>, url |-> <<"h","t","t","p","s",":","/","/","w","w","w",".","e","d","h",".","t","w","/","a","r","t","i","c","l","e","/","9">>,
   source |-> <<"m","a","n","u","a","l">>, added_date |-> <<"2","0","2","4","-","0","1","-","0","2">>]

\* a file kept by hand: no last_updated, no tv_shows and no health_media,
\* and a record whose url is null
SparseFile ==
  [stats |-> StoredStats,
   news_media |-> <<[StoredNews EXCEPT !.url = None], StoredNews>>]

\* a file kept by hand in which an emoji was cut in half: a title ends with
\* a lone surrogate
BrokenFile ==
  [last_updated |-> IsoFormat(1), stats |-> StoredStats,
   tv_shows |-> <<StoredTvShort>>, health_media |-> <<>>,
   news_media |-> <<[StoredNews EXCEPT !.title = @ \o <<"UD83D">>]>>]

StoredFile(stats) ==
  [last_updated |-> IsoFormat(1), stats |-> stats,
   tv_shows |-> <<StoredTvShort, StoredTvWatch>>,
   health_media |-> <<StoredHealth>>, news_media |-> <<StoredNews>>]

NoMatch == [kind |-> "none"]

FbFound ==
  [kind |-> "content",
   matches |-> <<[kind |-> "count", count |-> 800], NoMatch,
                 [kind |-> "count", count |-> 49234], NoMatch, NoMatch>>]

FbNothing ==
  [kind |-> "content", matches |-> <<NoMatch, [kind |-> "value_error"], NoMatch, NoMatch, NoMatch>>]

GoogleFound ==
  [kind |-> "text",
   matches |-> <<[kind |-> "rating", tenths |-> 99], [kind |-> "rating", tenths |-> 49],
                 NoMatch>>]

GoogleNothing == [kind |-> "text", matches |-> <<NoMatch, NoMatch, NoMatch>>]

\* <<file, Facebook response, Google response>>: a file with every stat, one
\* without the two fetched stats, one without a derived stat, one without
\* two of the collections, one with a lone surrogate, no file, and a file
\* that does not parse, against fetches that succeed or fail each way
StatScenarios ==
  {<<StoredFile(StoredStats), FbFound, GoogleFound>>,
   <<StoredFile(StoredStats), [kind |-> "import_error"], [kind |-> "network_error"]>>,
   <<SparseFile, [kind |-> "error"], [kind |-> "http_error"]>>,
   <<StoredFile(StoredStats), FbNothing, GoogleNothing>>,
   <<StoredFile(StatsWithout({"facebook_followers", "google_rating"})), FbFound, GoogleFound>>,
   <<StoredFile(StatsWithout({"media_exposure"})), FbFound, GoogleNothing>>,
   <<BrokenFile, FbNothing, GoogleNothing>>,
   <<NoFile, FbFound, GoogleFound>>,
   <<Corrupt, FbFound, GoogleFound>>}

NoHead == [ok |-> FALSE]

\* the entries a feed response is drawn from: an outlet known by its domain,
\* a health outlet with a role, a YouTube video the dataset already holds, an
\* entry without a link whose outlet is known by name only, an entry that does
\* not name the doctor, an article the dataset already holds (its time of
\* day is no time), a video on another site whose title ends with a lone
\* surrogate, and an entry whose date is no date
EntryPool == <<
  [title |-> <<"U694A","U667A","U921E","U91AB","U5E2B","U8AC7","U975C","U8108","U66F2","U5F35"," ","-"," ","U81EA","U7531","U6642","U5831">>, link |-> <<"h","t","t","p","s",":","/","/","n","e","w","s",".","g","o","o","g","l","e",".","c","o","m","/","r","s","s","/","a","r","t","i","c","l","e","s","/","a","1">>,
   head |-> [ok |-> TRUE, url |-> <<"h","t","t","p","s",":","/","/","h","e","a","l","t","h",".","l","t","n",".","c","o","m",".","t","w","/","a","r","t","i","c","l","e","/","1","?","u","t","m","_","s","o","u","r","c","e","=","r","s","s">>],
   published |-> <<2024, 5, 1, 8, 30, 0>>],
  [title |-> <<"U4FE0","U91AB","U694A","U667A","U921E","UFF1A","U817F","U90E8","U4FDD","U990A","U00A0"," ","-"," ","U00A0","U65E9","U5B89","U5065","U5EB7"," ">>, link |-> <<"h","t","t","p","s",":","/","/","n","e","w","s",".","g","o","o","g","l","e",".","c","o","m","/","r","s","s","/","a","r","t","i","c","l","e","s","/","a","2">>,
   head |-> [ok |-> TRUE, url |-> <<"h","t","t","p","s",":","/","/","w","w","w",".","e","d","h",".","t","w","/","a","r","t","i","c","l","e","/","2">>],
   published |-> <<>>],
  [title |-> <<"U694A","U667A","U921E","U4E0A","U7BC0","U76EE","U8AC7","U8840","U7BA1">>, link |-> <<"h","t","t","p","s",":","/","/","n","e","w","s",".","g","o","o","g","l","e",".","c","o","m","/","r","s","s","/","a","r","t","i","c","l","e","s","/","a","3">>,
   head |-> [ok |-> TRUE, url |-> <<"h","t","t","p","s",":","/","/","w","w","w",".","y","o","u","t","u","b","e",".","c","o","m","/","w","a","t","c","h","?","v","=","V","i","d","1">>],
   published |-> <<2024, 4, 30, 23, 59, 59>>],
  [title |-> <<"U694A","U667A","U921E"," ","-"," ","H","e","h","o","U5065","U5EB7","U7DB2">>, link |-> <<>>,
   head |-> NoHead, published |-> <<>>],
  [title |-> <<"U975C","U8108","U66F2","U5F35","U65B0","U7642","U6CD5"," ","-"," ","E","T","t","o","d","a","y">>, link |-> <<"h","t","t","p","s",":","/","/","n","e","w","s",".","g","o","o","g","l","e",".","c","o","m","/","r","s","s","/","a","r","t","i","c","l","e","s","/","a","5">>,
   head |-> [ok |-> TRUE, url |-> <<"h","t","t","p","s",":","/","/","w","w","w",".","e","t","t","o","d","a","y",".","n","e","t","/","n","e","w","s","/","5">>],
   published |-> <<2024, 5, 2, 0, 0, 0>>],
  [title |-> <<"U694A","U667A","U921E","UFF1A","U4E45","U7AD9","U65CF","U6CE8","U610F"," ","-"," ","U806F","U5408","U5831">>, link |-> <<"h","t","t","p","s",":","/","/","n","e","w","s",".","g","o","o","g","l","e",".","c","o","m","/","r","s","s","/","a","r","t","i","c","l","e","s","/","a","6">>,
   head |-> [ok |-> TRUE, url |-> <<"h","t","t","p","s",":","/","/","h","e","a","l","t","h",".","u","d","n",".","c","o","m","/","s","t","o","r","y","/","1">>],
   published |-> <<2024, 2, 1, 23, 59, 60>>],
  [title |-> <<"U694A","U667A","U921E"," ","U6700","U65B0","U8A2A","U8AC7"," ">> \o <<"UD83D">>, link |-> <<"h","t","t","p","s",":","/","/","n","e","w","s",".","g","o","o","g","l","e",".","c","o","m","/","r","s","s","/","a","r","t","i","c","l","e","s","/","a","7">>,
   head |-> [ok |-> TRUE, url |-> <<"h","t","t","p","s",":","/","/","w","w","w",".","f","a","c","e","b","o","o","k",".","c","o","m","/","w","a","t","c","h","/","?","v","=","V","i","d","3">>],
   published |-> <<>>],
  [title |-> <<"U694A","U667A","U921E","U8AC7","U4FDD","U5065"," ","-"," ","U5730","U65B9","U65E5","U5831">>, link |-> <<"h","t","t","p","s",":","/","/","n","e","w","s",".","g","o","o","g","l","e",".","c","o","m","/","r","s","s","/","a","r","t","i","c","l","e","s","/","a","8">>,
   head |-> NoHead, published |-> <<2024, 2, 30, 9, 0, 0>>] >>

\* the results a query's stdout is drawn from: a video whose title is null,
\* one the dataset already holds, a new one whose date is malformed, one
\* without an id, one whose id and date are null, one that names the third
\* show only, not the doctor, and one whose title ends with a lone surrogate
ResultPool == <<
  [kind |-> "object", video |-> [id |-> <<"V","i","d","5">>, title |-> None]],
  [kind |-> "object",
   video |-> [id |-> <<"V","i","d","1">>, title |-> <<"U91AB","U5E2B","U597D","U8FA3"," ","U694A","U667A","U921E","U8AC7","U975C","U8108","U66F2","U5F35">>, upload_date |-> <<"2","0","2","4","0","4","0","1">>]],
  [kind |-> "object",
   video |-> [id |-> <<"V","i","d","3">>, title |-> <<"U694A","U667A","U921E"," ","U6700","U65B0","U8A2A","U8AC7">>, upload_date |-> <<"2","0","2","4">>]],
  [kind |-> "object", video |-> [title |-> <<"U4FE0","U91AB","U694A","U667A","U921E"," ","U76F4","U64AD">>, upload_date |-> <<"2","0","2","4","0","4","2","0">>]],
  [kind |-> "object",
   video |-> [id |-> None, title |-> <<"U694A","U667A","U921E"," ","U77ED","U7247">>, upload_date |-> None]],
  [kind |-> "object", video |-> [id |-> <<"V","i","d","6">>, title |-> <<"U5065","U5EB7","2",".","0"," ","U5B8C","U6574","U7248">>]],
  [kind |-> "object", video |-> [id |-> <<"V","i","d","7">>, title |-> <<"U694A","U667A","U921E"," ","U5C08","U8A2A"," ">> \o <<"UD83D">>]] >>

\* the members of pool at the places in picked, in pool's order
RECURSIVE Pick(_, _, _)
Pick(pool, picked, i) ==
  IF i > Len(pool) THEN <<>>
  ELSE (IF i \in picked THEN <<pool[i]>> ELSE <<>>) \o Pick(pool, picked, i + 1)

Picks(pool, max) ==
  {Pick(pool, picked, 1) : picked \in {p \in SUBSET DOMAIN pool : Cardinality(p) <= max}}

Feed(entries) == [raises |-> FALSE, entries |-> entries]

\* both names' searches list the same entries, or the second one fails
RssSamples ==
  {<<Feed(es), IF second THEN Feed(es) ELSE [raises |-> TRUE]>> :
     es \in Picks(EntryPool, MaxEntries), second \in BOOLEAN}

\* the first show's query lists the results, the second times out, the
\* third prints a number and then the results, the fourth fails, the fifth
\* prints an empty line, a line that is no JSON, and then the results
YtRuns(lines) ==
  <<[kind |-> "ok", lines |-> lines], [kind |-> "timeout"],
    [kind |-> "ok", lines |-> <<[kind |-> "nonobject"]>> \o lines], [kind |-> "error"],
    [kind |-> "ok", lines |-> <<[kind |-> "empty"], [kind |-> "badjson"]>> \o lines]>>

YtSamples ==
  {[avail |-> "unavailable"], [avail |-> "probe_error"]} \cup
  {[avail |-> "installed", runs |-> YtRuns(<<ResultPool[2]>>)]} \cup
  {[avail |-> "present", runs |-> YtRuns(lines)] : lines \in Picks(ResultPool, MaxResults)}

(***************************************************************************)
(* MAIN: one action per stage of main(), and the scheduler's next start.   *)
(***************************************************************************)

Unloaded == [unloaded |-> TRUE]

\* load_data returned
IsDataset(d) == d # Unloaded

Idle ==
  /\ alt = Unloaded /\ cl_url = <<>> /\ cl_source = <<>> /\ cl_out = None

Init ==
  /\ \E s \in StatScenarios : file = s[1] /\ fb_page = s[2] /\ google_page = s[3]
  /\ rss \in RssSamples
  /\ ytdlp \in YtSamples
  /\ data = Unloaded /\ loaded = Unloaded /\ first = Unloaded
  /\ pc = "load" /\ changes = FALSE /\ news = <<>> /\ yt = <<>> /\ log = <<>>
  /\ exit_code = -1 /\ now = 2 /\ run = 1
  /\ Idle

World == <<fb_page, google_page, rss, ytdlp, alt, cl_url, cl_source, cl_out>>

\* line 461: json.load raises on a file that does not parse, and main() ends
Load ==
  /\ pc = "load"
  /\ IF FileExists(file) /\ ~FileParses(file)
     THEN /\ pc' = "exit" /\ exit_code' = 1
          /\ UNCHANGED <<data, loaded>>
     ELSE /\ data' = load_data(file) /\ loaded' = load_data(file)
          /\ pc' = "facebook"
          /\ UNCHANGED exit_code
  /\ UNCHANGED <<file, changes, news, yt, log, now, run, first, World>>

\* lines 465-466
Facebook ==
  /\ pc = "facebook"
  /\ LET r == update_facebook_followers(data, fb_page)
     IN  /\ data' = r.data
         /\ changes' = (changes \/ r.ok)
  /\ log' = Append(log, "FB")
  /\ pc' = "google"
  /\ UNCHANGED <<file, news, yt, exit_code, now, run, loaded, first, World>>

\* lines 469-470
Google ==
  /\ pc = "google"
  /\ LET r == update_google_rating(data, google_page)
     IN  /\ data' = r.data
         /\ changes' = (changes \/ r.ok)
         /\ log' = Append(log, IF r.ok THEN "GOOGLE updated" ELSE "GOOGLE failed")
  /\ pc' = "news"
  /\ UNCHANGED <<file, news, yt, exit_code, now, run, loaded, first, World>>

\* lines 473-475
News ==
  /\ pc = "news"
  /\ LET r == search_google_news(data, rss, now)
     IN  /\ data' = r.data
         /\ news' = r.new_items
         /\ changes' = (changes \/ r.new_items # <<>>)
  /\ log' = Append(log, "NEWS")
  /\ pc' = "youtube"
  /\ UNCHANGED <<file, yt, exit_code, now, run, loaded, first, World>>

\* lines 478-480; an exception search_youtube_shows lets out ends main()
\* with a traceback
Youtube ==
  /\ pc = "youtube"
  /\ LET r == search_youtube_shows(data, ytdlp, now)
     IN  /\ data' = r.data
         /\ yt' = r.new_items
         /\ changes' = (changes \/ r.new_items # <<>>)
         /\ IF r.raised THEN pc' = "exit" /\ exit_code' = 1
            ELSE pc' = "recalculate" /\ UNCHANGED exit_code
  /\ log' = Append(log, "YT")
  /\ UNCHANGED <<file, news, now, run, loaded, first, World>>

\* line 483: the KeyError of a missing entry ends main() with a traceback
Recalculate ==
  /\ pc = "recalculate"
  /\ LET r == recalculate_stats(data)
     IN  /\ data' = r.data
         /\ IF r.raised THEN pc' = "exit" /\ exit_code' = 1 /\ UNCHANGED log
            ELSE pc' = "save" /\ UNCHANGED exit_code /\ log' = Append(log, "STATS")
  /\ UNCHANGED <<file, changes, news, yt, now, run, loaded, first, World>>

\* line 486: when json.dump raises, the file is left cut short (it does not
\* parse) and main() ends with a traceback
Save ==
  /\ pc = "save"
  /\ data' = save_data(data, now)
  /\ IF DumpRaises(save_data(data, now))
     THEN /\ file' = Corrupt
          /\ pc' = "exit" /\ exit_code' = 1
          /\ UNCHANGED first
     ELSE /\ file' = save_data(data, now)
          /\ first' = IF run = 1 THEN save_data(data, now) ELSE first
          /\ pc' = "return"
          /\ UNCHANGED exit_code
  /\ UNCHANGED <<changes, news, yt, log, now, run, loaded, World>>

\* lines 487-498: main() returns and the script exits with 0
Exit ==
  /\ pc = "return"
  /\ pc' = "exit" /\ exit_code' = 0
  /\ UNCHANGED <<file, data, changes, news, yt, log, now, run, loaded, first, World>>

\* the scheduler starts the script again, later, against the same outside world
Start ==
  /\ pc = "exit" /\ run < MaxRuns
  /\ run' = run + 1 /\ now' = now + 1
  /\ pc' = "load" /\ exit_code' = -1
  /\ data' = Unloaded /\ loaded' = Unloaded
  /\ changes' = FALSE /\ news' = <<>> /\ yt' = <<>> /\ log' = <<>>
  /\ UNCHANGED <<file, first, World>>

Next ==
  \/ Load \/ Facebook \/ Google \/ News \/ Youtube
  \/ Recalculate \/ Save \/ Exit \/ Start

Spec == Init /\ [][Next]_vars

(***************************************************************************)
(* PROPERTIES of main()                                                    *)
(***************************************************************************)

\* the places of a dataset's records
Places(d) == UNION {{<<sec, i>> : i \in DOMAIN Section(d, sec)} : sec \in Sections}

\* the URL and the video id a record is known by
Identifiers(item) ==
  IF Get(item, "url", None) # None THEN {item.url} \cup VideoIds(item.url) ELSE {}

NoSharedIdentifier(d) ==
  \A p, q \in Places(d) :
     p # q => Identifiers(d[p[1]][p[2]]) \cap Identifiers(d[q[1]][q[2]]) = {}

StoredUrls(d) ==
  {d[p[1]][p[2]].url : p \in {q \in Places(d) : Get(d[q[1]][q[2]], "url", None) # None}}

StoredVideoIds(d) == UNION {VideoIds(u) : u \in StoredUrls(d)}

IsPrefixOf(old, new) == Len(old) <= Len(new) /\ SubSeq(new, 1, Len(old)) = old

Succeeded == pc = "exit" /\ exit_code = 0

RatingFailed == \E i \in DOMAIN log : log[i] = "GOOGLE failed"

Ran(stage) == \E i \in DOMAIN log : log[i] = stage

\* the records a collection gained since the load
Gained(d, sec) ==
  {Section(d, sec)[i] : i \in (Len(Section(loaded, sec)) + 1)..Len(Section(d, sec))}

HealthOutlet(outlet) ==
  \E k \in DOMAIN HEALTH_MEDIA_DOMAINS : HEALTH_MEDIA_DOMAINS[k].name = outlet

\* C1, as the specification states it: the second run on the file the first
\* run wrote, against the same responses, leaves tv_shows, health_media,
\* news_media and stats as the first run wrote them.
C1_Idempotent ==
  (run = 2 /\ Succeeded /\ first # Unloaded) =>
     /\ \A sec \in Sections : Section(file, sec) = Section(first, sec)
     /\ file.stats = first.stats

\* C2, as the specification states it: the Article Discoverer appends no
\* record with a URL the loaded dataset holds, the Appearance Discoverer
\* appends no record with a video id a loaded record's URL carries, and a
\* dataset that held no two records with a common URL or video id is written
\* holding none.
C2_NoDuplicates ==
  (pc = "return") =>
     /\ \A i \in DOMAIN news : news[i].url \notin StoredUrls(loaded)
     /\ \A i \in DOMAIN yt : VideoIds(yt[i].url) \cap StoredVideoIds(loaded) = {}
     /\ NoSharedIdentifier(loaded) => NoSharedIdentifier(file)

\* C3, as the specification states it: a run whose load step succeeded ends
\* reporting success, having saved.
C3_AlwaysSucceeds ==
  (pc = "exit" /\ IsDataset(loaded)) => (exit_code = 0 /\ Ran("STATS"))

\* the collection of the dataset DATA_FILE holds; nothing when there is no
\* file or it does not parse
OnDisk(sec) == IF FileParses(file) THEN Section(file, sec) ELSE <<>>

\* the records the file's collection holds beyond the loaded ones
Persisted(sec) ==
  {OnDisk(sec)[i] : i \in (Len(Section(loaded, sec)) + 1)..Len(OnDisk(sec))}

\* C4, as the specification states it: in a run whose rating fetch failed,
\* the failed stage leaves the rating stat as loaded, both discoverers run
\* afterwards, and the run ends with the file holding every record they
\* appended.
C4_FaultIsolation ==
  (pc = "exit" /\ RatingFailed) =>
     /\ HasKey(data.stats, "google_rating") = HasKey(loaded.stats, "google_rating")
     /\ HasKey(data.stats, "google_rating") =>
           data.stats["google_rating"] = loaded.stats["google_rating"]
     /\ Ran("NEWS") /\ Ran("YT")
     /\ \A i \in DOMAIN news :
           \E sec \in {"health_media", "news_media"} : news[i] \in Persisted(sec)
     /\ \A i \in DOMAIN yt : yt[i] \in Persisted("tv_shows")

\* C5: in the dataset the Saver has written, tv_episodes.count is the number
\* of tv_shows records and media_exposure.count is that plus the sizes of
\* news_media and health_media.
C5_StatDerivation ==
  (pc = "return" \/ Succeeded) =>
     /\ file.stats["tv_episodes"].count = Len(Section(file, "tv_shows"))
     /\ file.stats["media_exposure"].count =
           file.stats["tv_episodes"].count
             + Len(Section(file, "news_media")) + Len(Section(file, "health_media"))

\* the Saver wrote counts that differ from the loaded ones, after both
\* discoverers appended
C5_Witness ==
  /\ pc = "return"
  /\ news # <<>> /\ yt # <<>> /\ Section(file, "health_media") # <<>>
  /\ file.stats["tv_episodes"].count # loaded.stats["tv_episodes"].count
  /\ file.stats["media_exposure"].count # loaded.stats["media_exposure"].count

\* C6, as the specification states it: after a run that ends in success the
\* saved stats hold the four known keys.
C6_FourKeys ==
  Succeeded => StatKeys \subseteq DOMAIN file.stats

\* C8: an article the Article Discoverer appended is in health_media when its
\* outlet is a key of the health table, and then has an outlet_role exactly
\* when the table's role is not empty, that role; otherwise it is in
\* news_media and has no outlet_role.  It is in one collection only.
C8_CategoryRouting ==
  (pc \in {"youtube", "recalculate", "save", "return"}) =>
     \A i \in DOMAIN news :
        LET item == news[i]
            role == CHOOSE r \in {HEALTH_MEDIA_DOMAINS[k].role : k \in DOMAIN HEALTH_MEDIA_DOMAINS} \cup {<<>>} :
                       \/ \E k \in DOMAIN HEALTH_MEDIA_DOMAINS :
                             /\ HEALTH_MEDIA_DOMAINS[k].name = item.outlet
                             /\ HEALTH_MEDIA_DOMAINS[k].role = r
                       \/ ~HealthOutlet(item.outlet) /\ r = <<>>
        IN  /\ item \in Gained(data, "health_media") <=> HealthOutlet(item.outlet)
            /\ item \in Gained(data, "news_media") <=> ~HealthOutlet(item.outlet)
            /\ item \notin Gained(data, "tv_shows")
            /\ HasKey(item, "outlet_role") <=> role # <<>>
            /\ HasKey(item, "outlet_role") => item.outlet_role = role

\* an article of a health outlet with a role was appended
C8_Witness ==
  /\ pc = "youtube"
  /\ \E i \in DOMAIN news :
        /\ HealthOutlet(news[i].outlet)
        /\ HasKey(news[i], "outlet_role")
        /\ news[i] \in Gained(data, "health_media")

\* C10, as the specification states it: when a run that loaded a dataset
\* has ended, each collection of the file starts with the loaded collection,
\* unchanged.
C10_AppendOnly ==
  (pc = "exit" /\ IsDataset(loaded)) =>
     \A sec \in Sections : IsPrefixOf(Section(loaded, sec), OnDisk(sec))

(***************************************************************************)
(* SpecOrder: the two discoverers run on one dataset in main()'s order     *)
(* (data) and in the opposite order (alt), against the same responses,     *)
(* with a yt-dlp probe that lets the video search go on.                   *)
(***************************************************************************)

InitOrder ==
  /\ file \in {NoFile, StoredFile(StoredStats), SparseFile}
  /\ fb_page = FbFound /\ google_page = GoogleFound
  /\ rss \in RssSamples
  /\ ytdlp \in {tool \in YtSamples : tool.avail # "probe_error"}
  /\ data = load_data(file) /\ alt = load_data(file) /\ loaded = load_data(file)
  /\ first = Unloaded
  /\ pc = "order_news" /\ changes = FALSE /\ news = <<>> /\ yt = <<>> /\ log = <<>>
  /\ exit_code = -1 /\ now = 2 /\ run = 1
  /\ cl_url = <<>> /\ cl_source = <<>> /\ cl_out = None

OrderFrame ==
  UNCHANGED <<file, changes, news, yt, log, exit_code, now, run, fb_page, google_page,
              rss, ytdlp, loaded, first, cl_url, cl_source, cl_out>>

NewsThenYoutube ==
  /\ pc = "order_news"
  /\ data' = search_youtube_shows(search_google_news(data, rss, now).data, ytdlp, now).data
  /\ pc' = "order_youtube"
  /\ UNCHANGED alt
  /\ OrderFrame

YoutubeThenNews ==
  /\ pc = "order_youtube"
  /\ alt' = search_google_news(search_youtube_shows(alt, ytdlp, now).data, rss, now).data
  /\ pc' = "order_done"
  /\ UNCHANGED data
  /\ OrderFrame

NextOrder == NewsThenYoutube \/ YoutubeThenNews

SpecOrder == InitOrder /\ [][NextOrder]_vars

\* the records of a collection, in any order
Records(d, sec) == {Section(d, sec)[i] : i \in DOMAIN Section(d, sec)}

SameCollections == \A sec \in Sections : Records(data, sec) = Records(alt, sec)

\* C9, as the specification states it: the two orders of the discoverers
\* leave the same records in tv_shows, health_media and news_media.
C9_OrderIndependent ==
  (pc = "order_done") => SameCollections

(***************************************************************************)
(* SpecClassify: classify_outlet applied to a URL and a source name, each  *)
(* built of at most so many pieces.                                        *)
(***************************************************************************)

MaxUrlPieces == 2

MaxSourcePieces == 2

UrlPieces ==
  {<<"h","t","t","p","s",":","/","/">>, <<"h","t","t","p","s",":","/","/","w","w","w",".">>, <<"u","d","n",".","c","o","m">>, <<"l","t","n",".","c","o","m",".","t","w">>, <<"e","x","a","m","p","l","e",".","o","r","g">>, <<"/","a">>,
   <<"[",":",":","1","]">>, <<"[","x">>, <<" ">>, <<"UFF0F">>}

SourcePieces == {<<"U81EA","U7531","U6642","U5831">>, <<"U806F","U5408","U5831">>, <<"U5143","U6C23","U7DB2">>, <<" ">>, <<"H","e","h","o","U5065","U5EB7">>}

\* the texts of at most n pieces
RECURSIVE Texts(_, _)
Texts(pieces, n) ==
  IF n = 0 THEN {<<>>}
  ELSE Eager(LAMBDA shorter : shorter \cup {t \o q : t \in shorter, q \in pieces},
             Texts(pieces, n - 1))

InitClassify ==
  /\ cl_url \in Texts(UrlPieces, MaxUrlPieces)
  /\ cl_source \in Texts(SourcePieces, MaxSourcePieces)
  /\ cl_out = None
  /\ pc = "classify"
  /\ file = NoFile /\ fb_page = FbFound /\ google_page = GoogleFound
  /\ rss = <<>> /\ ytdlp = [avail |-> "unavailable"]
  /\ data = Unloaded /\ alt = Unloaded /\ loaded = Unloaded /\ first = Unloaded
  /\ changes = FALSE /\ news = <<>> /\ yt = <<>> /\ log = <<>>
  /\ exit_code = -1 /\ now = 2 /\ run = 1

Classify ==
  /\ pc = "classify"
  /\ cl_out' = classify_outlet(cl_url, cl_source)
  /\ pc' = "classified"
  /\ UNCHANGED <<file, data, changes, news, yt, log, exit_code, now, run, fb_page,
                 google_page, rss, ytdlp, loaded, first, alt, cl_url, cl_source>>

NextClassify == Classify

SpecClassify == InitClassify /\ [][NextClassify]_vars

\* the rows of the merged outlet table, NEWS_OUTLET_DOMAINS first
Rows == DOMAIN AllOutletDomains

InUrl(row, url) ==
  \E k \in DOMAIN AllOutletDomains[row].domains :
     Contains(url, AllOutletDomains[row].domains[k])

\* the outlet's name without the fullwidth slash and the ideographic space
\* is in the label without its spaces
InLabel(row, label) ==
  Contains(Remove(label, <<" ">>), Remove(Remove(AllOutletDomains[row].name, <<"UFF0F">>), <<"U3000">>))

Matched(url) == \E row \in Rows : InUrl(row, url)

\* C7, as the specification states it: a matched URL gives the table's outlet
\* name; an unmatched URL with a label gives the label; an unmatched URL
\* without a label gives the URL's host.
C7_Classification ==
  (pc = "classified") =>
     /\ Matched(cl_url) => \E row \in Rows : InUrl(row, cl_url) /\ cl_out = AllOutletDomains[row].name
     /\ (~Matched(cl_url) /\ cl_source # <<>>) => cl_out = cl_source
     /\ (~Matched(cl_url) /\ cl_source = <<>> /\ ~UrlParseRaises(cl_url)) =>
           cl_out = Remove(UrlNetloc(cl_url), <<"w","w","w",".">>)

\* C7, amended: a URL that holds a domain of the table gives the outlet of
\* the first row with such a domain; otherwise a label gives the first
\* outlet whose name is in it, or itself when there is none; otherwise the
\* result is the URL's host without "www.", or the fallback name when the
\* URL does not parse.
C7_ClassificationByFirstMatch ==
  (pc = "classified") =>
     /\ \A row \in Rows :
           (InUrl(row, cl_url) /\ \A r \in Rows : r < row => ~InUrl(r, cl_url))
              => cl_out = AllOutletDomains[row].name
     /\ (~Matched(cl_url) /\ cl_source # <<>>) =>
           /\ \A row \in Rows :
                 (InLabel(row, cl_source) /\ \A r \in Rows : r < row => ~InLabel(r, cl_source))
                    => cl_out = AllOutletDomains[row].name
           /\ (\A row \in Rows : ~InLabel(row, cl_source)) => cl_out = cl_source
     /\ (~Matched(cl_url) /\ cl_source = <<>>) =>
           cl_out = IF UrlParseRaises(cl_url) THEN <<"U5176","U4ED6","U5A92","U9AD4">>
                    ELSE Remove(UrlNetloc(cl_url), <<"w","w","w",".">>)

\* an unmatched URL, and a label that holds a known outlet's name and more
C7_Witness ==
  /\ pc = "classified"
  /\ ~Matched(cl_url) /\ cl_source # <<>>
  /\ \E row \in Rows : InLabel(row, cl_source) /\ cl_out = AllOutletDomains[row].name
  /\ cl_out # cl_source

====
